---- MODULE Spec2Model ----
(***************************************************************************)
(* The streaming side of the native tool call adapter (src/app.py):        *)
(* handle_stream_response and handle_stream_response_for_legacy_completion *)
(* as state machines over the upstream lines of one backend response.      *)
(*                                                                         *)
(* Text is a sequence of tokens.  The text a backend event at upstream     *)
(* position k carries is the one-token text <<Tok(k, j)>>, so that every   *)
(* concatenation the handlers build shows which events it came from and   *)
(* in which order.  The tag encoder (parser.modify_tool_call_to_xml_      *)
(* message) and the completion transform (apply_replacement_to_completion) *)
(* are not interpreted: a flushed text is the record of the arguments they *)
(* were called with.                                                       *)
(*                                                                         *)
(* The request side: process_request (src/app.py) as a state machine over  *)
(* its four stages, with the process-wide configuration of src/config.py   *)
(* read and updated between them.  The schema synthesizer, the message     *)
(* rewriter and the replacement pipeline it calls are modelled from their  *)
(* contracts.                                                              *)
(***************************************************************************)
EXTENDS Integers, Sequences, FiniteSets, TLC

VARIABLES req, call, config

vars == <<req, call, config>>

\* The longest upstream response (in lines) of a request handled alone.
MaxLines == 4

\* The longest upstream response of each of two concurrently handled requests.
MaxPairLines == 2

\* Python's None, for a role or a finish reason that is absent.
None == "None"

Tok(k, j) == 10 * k + j

NoText == <<>>

(***************************************************************************)
(* The value of a content / text field: what the backend sent (by =        *)
(* "backend", the text in buffer), or what a flush put there (by =         *)
(* "flush"): the transform applied to the encoding of (tool_name, buffer,  *)
(* tool_call_id, reasoning) in the chat handler, the transform applied to  *)
(* buffer in the legacy handler.                                           *)
(***************************************************************************)
BackendText(t) ==
    [by |-> "backend", tool_name |-> NoText, buffer |-> t,
     tool_call_id |-> NoText, reasoning |-> NoText]

FlushText(name, buf, id, reasoning) ==
    [by |-> "flush", tool_name |-> name, buffer |-> buf,
     tool_call_id |-> id, reasoning |-> reasoning]

(***************************************************************************)
(* One upstream line.  kind: "other" (does not start with "data: "),       *)
(* "done" (the sentinel), "bad" (a data line that is not JSON), "event" (a *)
(* parsed JSON payload), "none" (no line: last_chunk = None).  An event's  *)
(* fields are those the handlers read or write: choices (is the list       *)
(* non-empty), index, role, content, tool_calls, reasoning_content of      *)
(* choices[0] and its delta, its text (legacy), finish_reason at the top   *)
(* level of the payload and choice_finish_reason inside choices[0].        *)
(***************************************************************************)
Line(kind, k) ==
    [kind |-> kind, pos |-> k, choices |-> FALSE, index |-> 0, role |-> None,
     content |-> BackendText(NoText), tool_calls |-> <<>>,
     reasoning_content |-> NoText, text |-> BackendText(NoText),
     finish_reason |-> None, choice_finish_reason |-> None]

NoLine == Line("none", 0)

\* A tool-call fragment of a delta: {"index": idx, "id": ..., "function": {...}}.
Fragment(idx, name, args, id) ==
    [index |-> idx, name |-> name, arguments |-> args, id |-> id]

\* The fragments a backend sends: the head of a call (name and id, no arguments
\* yet), a piece of its arguments, or a whole call at once.
HeadFragment(idx, t) == Fragment(idx, t, NoText, t)
BodyFragment(idx, t) == Fragment(idx, NoText, t, NoText)
WholeFragment(idx, t) == Fragment(idx, t, t, t)

Fragments(k, j) ==
    LET t == <<Tok(k, j)>>
    IN  { HeadFragment(0, t), BodyFragment(0, t), BodyFragment(1, t), WholeFragment(1, t) }

Delta(k, role, calls, reasoning, top, inner) ==
    [Line("event", k) EXCEPT !.choices = TRUE, !.role = role, !.tool_calls = calls,
                             !.reasoning_content = reasoning,
                             !.finish_reason = top, !.choice_finish_reason = inner]

(***************************************************************************)
(* The chat-completion events of the model at upstream position k.         *)
(***************************************************************************)
ChatEvents(k) ==
    LET t == <<Tok(k, 0)>>
    IN  \* role, reasoning and finish-reason deltas without a tool call
        { Delta(k, "assistant", <<>>, NoText, None, None),
          Delta(k, "user", <<>>, NoText, None, None),
          Delta(k, None, <<>>, t, None, None),
          Delta(k, None, <<>>, NoText, None, "tool_calls"),
          Delta(k, None, <<>>, NoText, "tool_calls", None),
          Delta(k, None, <<>>, NoText, "stop", None) }
        \* one tool-call fragment
        \cup { Delta(k, None, <<f>>, NoText, None, None) : f \in Fragments(k, 1) }
        \cup { Delta(k, "assistant", <<HeadFragment(0, <<Tok(k, 1)>>)>>, NoText, None, None),
               Delta(k, "assistant", <<WholeFragment(0, <<Tok(k, 1)>>)>>, NoText, None, None),
               Delta(k, None, <<BodyFragment(0, <<Tok(k, 1)>>)>>, NoText, "tool_calls", None),
               Delta(k, None, <<BodyFragment(0, <<Tok(k, 1)>>)>>, NoText, None, "tool_calls"),
               [Delta(k, None, <<BodyFragment(0, <<Tok(k, 1)>>)>>, NoText, None, None)
                   EXCEPT !.index = 1] }
        \* two fragments in one delta
        \cup { Delta(k, None, <<BodyFragment(0, <<Tok(k, 1)>>), BodyFragment(1, <<Tok(k, 2)>>)>>,
                     NoText, None, None) }

(***************************************************************************)
(* A backend that only streams two tool calls and the finish reason.       *)
(***************************************************************************)
CallEvents(k) ==
    LET t == <<Tok(k, 1)>>
    IN  { Delta(k, "assistant", <<WholeFragment(0, t)>>, NoText, None, None),
          Delta(k, None, <<BodyFragment(0, t)>>, NoText, None, None),
          Delta(k, None, <<WholeFragment(1, t)>>, NoText, None, None),
          Delta(k, None, <<>>, NoText, "tool_calls", None) }

(***************************************************************************)
(* The legacy completion events at upstream position k: choices[0].text,   *)
(* choices[0].index and the top-level finish_reason.                       *)
(***************************************************************************)
LegacyEvents(k) ==
    { [Line("event", k) EXCEPT !.choices = TRUE, !.index = idx, !.text = BackendText(t),
                               !.finish_reason = top] :
        idx \in {0, 1}, t \in {NoText, <<Tok(k, 0)>>}, top \in {None, "stop"} }
    \cup { Line("event", k) }

(***************************************************************************)
(* The locals of one running handler (app.py:137-144, 280-282), with its   *)
(* position pc, the upstream lines it has consumed (inp) and the lines it  *)
(* has yielded (out).  upstream and limit bound what its backend sends:    *)
(* "any" event of the model or only "calls" (CallEvents), on at most limit *)
(* lines, numbered from base + 1 (so that the texts of two responses       *)
(* differ).  data is the event being processed; last_is_data               *)
(* says that last_chunk is that same object (app.py:194, 310), so that a   *)
(* write through either name is seen through the other.                    *)
(***************************************************************************)
Request(handler, is_error, upstream, limit, base) ==
    [handler |-> handler, is_error |-> is_error, upstream |-> upstream,
     limit |-> limit, base |-> base, pc |-> "start",
     buffer |-> NoText, last_chunk |-> NoLine, role |-> None,
     choice_index |-> 0, tool_call_index |-> 0, tool_call_id |-> NoText,
     tool_name |-> NoText, reasoning_content_buffer |-> NoText,
     data |-> NoLine, last_is_data |-> FALSE,
     inp |-> <<>>, out |-> <<>>]

\* An output line: what was yielded (flush, forward, sentinel, error) and the
\* payload as serialised at that moment.
Yield(r, what, payload) == [r EXCEPT !.out = Append(@, [what |-> what, line |-> payload])]


(***************************************************************************)
(* create_tool_call of handle_stream_response (app.py:151-162): encode the *)
(* accumulated call, write it into the carrier's content, reset the        *)
(* accumulator, yield the carrier.  With no carrier (last_chunk is None)   *)
(* the subscript raises.                                                   *)
(***************************************************************************)
Carrier(r) == IF r.last_is_data THEN r.data ELSE r.last_chunk

SetCarrier(r, c) ==
    IF r.last_is_data THEN [r EXCEPT !.data = c] ELSE [r EXCEPT !.last_chunk = c]

\* The same, forgetting `tool_name = ""`.
create_tool_call_keeping_name(r) ==
    IF Carrier(r).kind # "event"
    THEN [r EXCEPT !.pc = "raised"]
    ELSE LET modified_data ==
                 FlushText(r.tool_name, r.buffer, r.tool_call_id, r.reasoning_content_buffer)
             c == [Carrier(r) EXCEPT !.content = modified_data]
             s == SetCarrier(r, c)
         IN  Yield([s EXCEPT !.buffer = NoText, !.tool_call_id = NoText,
                             !.reasoning_content_buffer = NoText],
                   "flush", c)

create_tool_call(r) ==
    IF Carrier(r).kind # "event"
    THEN [r EXCEPT !.pc = "raised"]
    ELSE LET modified_data ==
                 FlushText(r.tool_name, r.buffer, r.tool_call_id, r.reasoning_content_buffer)
             c == [Carrier(r) EXCEPT !.content = modified_data]
             s == SetCarrier(r, c)
         IN  Yield([s EXCEPT !.buffer = NoText, !.tool_name = NoText,
                             !.tool_call_id = NoText,
                             !.reasoning_content_buffer = NoText],
                   "flush", c)

\* A statement of the loop body runs only while no earlier one has raised.
Then(r, next) == IF r.pc = "raised" THEN r ELSE next

\* `if cond and buffer: yield create_tool_call()`
FlushIf(r, cond) == IF cond /\ r.buffer # NoText THEN create_tool_call(r) ELSE r

\* delta = choice.get("delta") or {}: is the dict empty
DeltaIsEmpty(e) ==
    \/ ~e.choices
    \/ /\ e.role = None
       /\ e.tool_calls = <<>>
       /\ e.reasoning_content = NoText
       /\ e.content = BackendText(NoText)

\* app.py:185-194: under role "assistant", flush on a changed call index, then
\* append the first fragment of the delta and make the event the carrier.
AppendFragment(r, e) ==
    IF r.role # "assistant"
    THEN r
    ELSE LET has == e.choices /\ e.tool_calls # <<>>
             \* {}.get("index") is None, which differs from every index
             differs == IF has THEN e.tool_calls[1].index # r.tool_call_index ELSE TRUE
             f == FlushIf(r, differs)
         IN  IF ~has \/ f.pc = "raised"
             THEN f
             ELSE [f EXCEPT !.tool_name = @ \o e.tool_calls[1].name,
                            !.buffer = @ \o e.tool_calls[1].arguments,
                            !.tool_call_id = @ \o e.tool_calls[1].id,
                            !.tool_call_index = e.tool_calls[1].index,
                            !.last_is_data = TRUE]

\* app.py:197-198
RemapFinishReason(r) ==
    IF r.data.finish_reason = "tool_calls"
    THEN [r EXCEPT !.data.finish_reason = "stop"]
    ELSE r

\* The end of one pass of the loop body: the event object stays reachable only
\* as last_chunk.
EndPass(r) ==
    [r EXCEPT !.last_chunk = IF r.last_is_data THEN r.data ELSE @,
              !.data = NoLine, !.last_is_data = FALSE]

(***************************************************************************)
(* handle_stream_response on one parsed event e (app.py:169-199).          *)
(***************************************************************************)
ChatEvent(r0, e) ==
    LET choice_index_of_delta == IF e.choices THEN e.index ELSE r0.choice_index
        role_in_delta == IF e.choices /\ e.role # None THEN e.role ELSE r0.role
        tool_calls_in_delta == IF e.choices THEN e.tool_calls ELSE <<>>
        r1 == [r0 EXCEPT !.inp = Append(@, e), !.data = e,
                         !.reasoning_content_buffer =
                             @ \o (IF e.choices THEN e.reasoning_content ELSE NoText)]
        r2 == FlushIf(r1, \/ choice_index_of_delta # r1.choice_index
                          \/ DeltaIsEmpty(e)
                          \/ role_in_delta # r1.role
                          \/ tool_calls_in_delta = <<>>)
        r3 == Then(r2, [r2 EXCEPT !.choice_index = choice_index_of_delta,
                                  !.role = role_in_delta])
        r4 == Then(r3, AppendFragment(r3, e))
        r5 == Then(r4, FlushIf(r4, r4.data.finish_reason # None))
        r6 == Then(r5, RemapFinishReason(r5))
    IN  EndPass(Then(r6, Yield(r6, "forward", r6.data)))


(***************************************************************************)
(* create_tool_call of handle_stream_response_for_legacy_completion        *)
(* (app.py:289-294): the transform of the buffered text goes into the      *)
(* carrier's choices[0].text.                                              *)
(***************************************************************************)
\* The same, forgetting `buffer = ""`.
create_tool_call_legacy_keeping_buffer(r) ==
    IF Carrier(r).kind # "event"
    THEN [r EXCEPT !.pc = "raised"]
    ELSE LET c == [Carrier(r) EXCEPT !.text = FlushText(NoText, r.buffer, NoText, NoText)]
         IN  Yield(SetCarrier(r, c), "flush", c)

create_tool_call_legacy(r) ==
    IF Carrier(r).kind # "event"
    THEN [r EXCEPT !.pc = "raised"]
    ELSE LET c == [Carrier(r) EXCEPT !.text = FlushText(NoText, r.buffer, NoText, NoText)]
         IN  Yield([SetCarrier(r, c) EXCEPT !.buffer = NoText], "flush", c)

LegacyFlushIf(r, cond) ==
    IF cond /\ r.buffer # NoText THEN create_tool_call_legacy(r) ELSE r

\* app.py:313: choice["text"] = "" (choice is a fresh dict when choices is empty)
ClearText(r) ==
    IF r.data.choices THEN [r EXCEPT !.data.text = BackendText(NoText)] ELSE r

(***************************************************************************)
(* handle_stream_response_for_legacy_completion on one parsed event e      *)
(* (app.py:301-314).                                                       *)
(***************************************************************************)
LegacyEvent(r0, e) ==
    LET text == IF e.choices THEN e.text.buffer ELSE NoText
        choice_index_of_delta == IF e.choices THEN e.index ELSE r0.choice_index
        r1 == [r0 EXCEPT !.inp = Append(@, e), !.data = e]
        r2 == LegacyFlushIf(r1, text = NoText \/ choice_index_of_delta # r1.choice_index)
        r3 == Then(r2, [r2 EXCEPT !.choice_index = choice_index_of_delta])
        r4 == Then(r3, IF text # NoText
                       THEN [r3 EXCEPT !.buffer = @ \o text, !.last_is_data = TRUE]
                       ELSE r3)
        r5 == Then(r4, LegacyFlushIf(r4, r4.data.finish_reason # None))
        r6 == Then(r5, ClearText(r5))
    IN  EndPass(Then(r6, Yield(r6, "forward", r6.data)))

\* The events the backend of request r sends as its next line.
Events(r) ==
    LET k == r.base + Len(r.inp) + 1
    IN  IF r.handler = "legacy" THEN LegacyEvents(k)
        ELSE IF r.upstream = "calls" THEN CallEvents(k)
        ELSE ChatEvents(k)

(***************************************************************************)
(* The other ways through the loop body, the same in both handlers.        *)
(***************************************************************************)
\* The same without the `return`: the handler goes on into its loop.
OnErrorStatusNoReturn(r) ==
    [Yield(Yield(r, "error", Line("error", 0)), "sentinel", Line("done", 0))
        EXCEPT !.pc = "loop"]

\* app.py:132-136, 275-279: an error status: the payload, the sentinel, return.
OnErrorStatus(r) ==
    [Yield(Yield(r, "error", Line("error", 0)), "sentinel", Line("done", 0))
        EXCEPT !.pc = "done"]

\* Leaving with a last flush of what is buffered.
OnDisconnectedFlushing(r) ==
    [(IF r.handler = "chat" THEN FlushIf(r, TRUE) ELSE LegacyFlushIf(r, TRUE))
        EXCEPT !.pc = "disconnected"]

\* app.py:146-147, 284-285: the client is gone: return.
OnDisconnected(r) == [r EXCEPT !.pc = "disconnected"]

\* The same, passing the line on to the client.
OnOtherLineForwarded(r, l) == Yield([r EXCEPT !.inp = Append(@, l)], "forward", l)

\* app.py:148-149, 286-287: a line that does not start with "data: ": continue.
OnOtherLine(r, l) == [r EXCEPT !.inp = Append(@, l)]

\* app.py:164-168, 296-300: the sentinel: flush what is buffered, forward it.
OnSentinel(r0, l) ==
    LET r1 == [r0 EXCEPT !.inp = Append(@, l)]
        r2 == IF r1.handler = "chat" THEN FlushIf(r1, TRUE) ELSE LegacyFlushIf(r1, TRUE)
    IN  Then(r2, Yield(r2, "sentinel", l))

\* The bad line caught and skipped (`except ValueError: continue`).
OnBadJsonSkipped(r, l) == [r EXCEPT !.inp = Append(@, l)]

\* app.py:169, 301: json.loads raises on a payload that is not JSON.
OnBadJson(r, l) == [r EXCEPT !.inp = Append(@, l), !.pc = "raised"]

\* The upstream line a handler is about to read.
NextPos(r) == r.base + Len(r.inp) + 1

\* The handler is in its loop and the backend has a line for it.
Reading(r) == r.pc = "loop" /\ Len(r.inp) < r.limit

\* The accumulator kept in one place for all requests instead of in the locals
\* of each call.
SharedLocals(i) ==
    [req[i] EXCEPT !.buffer = req[1].buffer, !.tool_name = req[1].tool_name,
                   !.tool_call_id = req[1].tool_call_id,
                   !.last_chunk = req[1].last_chunk]

\* The locals the handler of request i works on: those of its own call
\* (app.py:137-144, 280-282 are assignments to function locals).
Locals(i) == req[i]

(***************************************************************************)
(* config.py: the process-wide configuration.  config holds the objects of *)
(* class RuntimeConfig created so far (objects, in creation order; an      *)
(* object is named by its place in it), the module global _global_config   *)
(* (global_config: the place of the current object, 0 for None), the       *)
(* values RuntimeConfig() reads from the environment (env) and the         *)
(* payloads posted to /api/config so far (payloads).  Of the fields of     *)
(* RuntimeConfig, those process_request reads are modelled.                *)
(***************************************************************************)
Fields ==
    {"message_dump_path", "tool_dump_path", "disable_strict_schemas", "force_tool_calling"}

\* config.py:6-11: one RuntimeConfig object.
RuntimeConfig(message_dump_path, tool_dump_path, disable_strict_schemas, force_tool_calling) ==
    [message_dump_path |-> message_dump_path, tool_dump_path |-> tool_dump_path,
     disable_strict_schemas |-> disable_strict_schemas,
     force_tool_calling |-> force_tool_calling]

\* config.py:13: _global_config = None, in a process started in environment env.
FreshConfig(env) ==
    [env |-> env, objects |-> <<>>, global_config |-> 0, payloads |-> <<>>]

\* config.py:16-20: the current object, created from the environment on first
\* use.  The result is the configuration afterwards and the object returned.
get_config(cf) ==
    LET created == IF cf.global_config = 0
                   THEN [cf EXCEPT !.objects = Append(@, cf.env),
                                   !.global_config = Len(cf.objects) + 1]
                   ELSE cf
    IN  [config |-> created, ref |-> created.global_config]

\* A payload of /api/config: the fields it names and their values.
Update(named, disable_strict_schemas, force_tool_calling) ==
    [named |-> named,
     value |-> RuntimeConfig(None, None, disable_strict_schemas, force_tool_calling)]

Payloads ==
    { Update({}, FALSE, FALSE), Update({"disable_strict_schemas", "force_tool_calling"}, TRUE, TRUE) }
    \cup { Update({"disable_strict_schemas"}, b, FALSE) : b \in BOOLEAN }
    \cup { Update({"force_tool_calling"}, FALSE, b) : b \in BOOLEAN }

\* current.model_copy(update=data): a new object, the named fields replaced.
model_copy(current, data) ==
    [f \in Fields |-> IF f \in data.named THEN data.value[f] ELSE current[f]]

\* The same, assigning the named fields to the current object itself.
update_config_in_place(cf, data) ==
    LET got == get_config(cf)
        merged == model_copy(got.config.objects[got.ref], data)
    IN  [got.config EXCEPT !.objects[got.ref] = merged, !.payloads = Append(@, data)]

\* config.py:23-28: the copy becomes the current object.
update_config(cf, data) ==
    LET got == get_config(cf)
        merged == model_copy(got.config.objects[got.ref], data)
    IN  [got.config EXCEPT !.objects = Append(@, merged),
                           !.global_config = Len(got.config.objects) + 1,
                           !.payloads = Append(@, data)]

(***************************************************************************)
(* The requests of process_request.  A text is a sequence of pieces: plain *)
(* words, tool-definition blocks of the client's prompt syntax, the note   *)
(* that replaces a block in the rewritten prompt, embedded tool calls and  *)
(* tool results, and the newline that joins the parts of a multipart       *)
(* content.                                                                *)
(***************************************************************************)
Word(w) == [kind |-> "word", name |-> w]
ToolBlock(t) == [kind |-> "tool", name |-> t]
NativeNote(t) == [kind |-> "native", name |-> t]
CallTag(t) == [kind |-> "call", name |-> t]
ResultTag(t) == [kind |-> "result", name |-> t]
Newline == [kind |-> "newline", name |-> ""]

\* A content: a string, or a list of parts of which some are {"text": ...}.
TextPart(text) == [has_text |-> TRUE, text |-> text]
ImagePart == [has_text |-> FALSE, text |-> <<>>]
Str(text) == [is_list |-> FALSE, parts |-> <<TextPart(text)>>]
Parts(parts) == [is_list |-> TRUE, parts |-> parts]

Message(role, content) == [role |-> role, content |-> content, tool_calls |-> <<>>]

\* A key a request dict does not have.
Absent == "Absent"

\* request["tools"]: the key may be missing.
NoTools == [present |-> FALSE, list |-> <<>>]
Tools(list) == [present |-> TRUE, list |-> list]

\* A tool declaration: one the client sent, or one synthesized from the prompt.
ClientTool(t) == [name |-> t, strict |-> FALSE, by |-> "client"]
Schema(t, strict) == [name |-> t, strict |-> strict, by |-> "synthesizer"]

\* The first message of a request, and the messages that may follow it.
FirstMessages ==
    { Message(role, content) :
        role \in {"system", "user", "assistant"},
        content \in { Str(<<Word("w")>>),
                      Str(<<Word("old"), ToolBlock("a")>>),
                      Str(<<ToolBlock("b"), Word("w"), ToolBlock("a")>>),
                      Parts(<<TextPart(<<Word("w")>>), ImagePart,
                              TextPart(<<ToolBlock("b")>>)>>) } }

LaterMessages ==
    { Message("user", Str(<<Word("old")>>)),
      Message("assistant", Str(<<Word("w")>>)),
      Message("assistant", Str(<<Word("w"), CallTag("a")>>)),
      Message("user", Str(<<ResultTag("a"), Word("w")>>)) }

\* The message lists of at most n messages.
MessageLists(n) ==
    {<<>>}
    \cup UNION { { <<first>> \o rest : first \in FirstMessages,
                                       rest \in [1..(k - 1) -> LaterMessages] } :
                 k \in 1..n }

\* The texts joined by newlines: "\n".join(texts).
RECURSIVE Join(_)
Join(texts) ==
    IF texts = <<>> THEN <<>>
    ELSE IF Len(texts) = 1 THEN texts[1]
    ELSE texts[1] \o <<Newline>> \o Join(Tail(texts))

\* app.py:92-100: the content of message 0 as one text: of a list, the text
\* of the parts that have one, joined.
system_prompt(content) ==
    IF content.is_list
    THEN LET with_text == SelectSeq(content.parts, LAMBDA t : t.has_text)
         IN  Join([k \in 1..Len(with_text) |-> with_text[k].text])
    ELSE content.parts[1].text

(***************************************************************************)
(* parser_control.build_tool_parser (the schema synthesizer): one schema   *)
(* per tool-definition block of the prompt, in declaration order, closed   *)
(* when strict; the prompt with each block replaced by the note to call    *)
(* the tool natively.  Without a block: no schema, the prompt unchanged.   *)
(***************************************************************************)
IsToolBlock(piece) == piece.kind = "tool"

build_tool_parser(prompt, strict) ==
    LET blocks == SelectSeq(prompt, IsToolBlock)
    IN  [parser |-> [bound |-> TRUE,
                     schemas |-> [k \in 1..Len(blocks) |-> Schema(blocks[k].name, strict)]],
         processed_system_prompt |->
             [k \in 1..Len(prompt) |->
                 IF IsToolBlock(prompt[k]) THEN NativeNote(prompt[k].name) ELSE prompt[k]]]

\* The local `parser` before any assignment to it.
Unbound == [bound |-> FALSE, schemas |-> <<>>]

\* The tools a parser knows.
Known(parser) == { parser.schemas[k].name : k \in 1..Len(parser.schemas) }

(***************************************************************************)
(* Parser.modify_xml_messages_to_tool_calls (the message rewriter,         *)
(* outbound): a message whose text embeds calls of known tools becomes an  *)
(* assistant message with the decoded calls in tool_calls and the          *)
(* surrounding text as content; embedded results of known tools become     *)
(* tool-result messages, followed by the rest of the message if any text   *)
(* is left.  A message without embedded tags passes through unchanged, and *)
(* the order of the messages is kept.                                      *)
(***************************************************************************)
IsTag(piece) == piece.kind \in {"call", "result"}

RewriteMessage(parser, m) ==
    LET text == system_prompt(m.content)
        calls == SelectSeq(text, LAMBDA t : t.kind = "call" /\ t.name \in Known(parser))
        results == SelectSeq(text, LAMBDA t : t.kind = "result" /\ t.name \in Known(parser))
        plain == SelectSeq(text, LAMBDA t : ~(IsTag(t) /\ t.name \in Known(parser)))
    IN  IF calls = <<>> /\ results = <<>>
        THEN <<m>>
        ELSE [k \in 1..Len(results) |-> Message("tool", Str(<<results[k]>>))]
             \o (IF calls # <<>>
                 THEN <<[role |-> "assistant", content |-> Str(plain),
                         tool_calls |-> [k \in 1..Len(calls) |-> calls[k].name]]>>
                 ELSE IF plain # <<>> THEN <<[m EXCEPT !.content = Str(plain)]>>
                 ELSE <<>>)

RECURSIVE modify_xml_messages_to_tool_calls(_, _)
modify_xml_messages_to_tool_calls(parser, messages) ==
    IF messages = <<>> THEN <<>>
    ELSE RewriteMessage(parser, Head(messages))
         \o modify_xml_messages_to_tool_calls(parser, Tail(messages))

(***************************************************************************)
(* regex_replacement.apply_replacement_to_messages (the replacement        *)
(* pipeline, outbound): the configured rule run over the text of every     *)
(* message; the result carries the transform for the completion, which     *)
(* runs the inverse rule.                                                  *)
(***************************************************************************)
Rule == [pattern |-> Word("old"), replacement |-> Word("new")]

Replace(rule, text) ==
    [k \in 1..Len(text) |-> IF text[k] = rule.pattern THEN rule.replacement ELSE text[k]]

ReplaceInContent(content) ==
    [content EXCEPT !.parts = [n \in 1..Len(content.parts) |->
                                  [content.parts[n] EXCEPT !.text = Replace(Rule, @)]]]

apply_replacement_to_messages(messages) ==
    [messages |->
         [k \in 1..Len(messages) |->
             [messages[k] EXCEPT !.content = ReplaceInContent(@)]],
     apply_replacement_to_completion |->
         [pattern |-> Rule.replacement, replacement |-> Rule.pattern]]

(***************************************************************************)
(* process_request (app.py:86-123).  One invocation: the request object it *)
(* was given, its own copy (request), the configuration object it read at  *)
(* entry (cfg, 0 before that), the local parser, what it returns with the  *)
(* request (apply_replacement_to_completion), what it wrote to the dump    *)
(* files, and its position pc: "called", "entered" (after line 90),        *)
(* "synthesized" (after line 105), "tools" (after line 109, or after line  *)
(* 91 when the branch is not taken), "returned", "raised".  shares says    *)
(* what the local request has in common with the object of the caller: it  *)
(* is that "object" (the parameter as passed), it is another dict holding  *)
(* the same "messages" (a shallow copy), or "none" (a deep copy).          *)
(***************************************************************************)
\* A dump file: not written, or written with a value.
NoDump == [written |-> FALSE, value |-> <<>>]
Dump(value) == [written |-> TRUE, value |-> value]

\* The local apply_replacement_to_completion before the assignment to it.
NoTransform == [pattern |-> Word(""), replacement |-> Word("")]

Invocation(given) ==
    [pc |-> "called", given |-> given, request |-> given, shares |-> "object", cfg |-> 0,
     parser |-> Unbound, apply_replacement_to_completion |-> NoTransform,
     message_dump |-> NoDump, tool_dump |-> NoDump]

\* request.get("tools") or []
ToolsOrEmpty(request) == IF request.tools.present THEN request.tools.list ELSE <<>>

\* app.py:91: message 0 is the system prompt, or a user message standing for it.
HasPrompt(request) ==
    /\ request.messages # <<>>
    /\ request.messages[1].role \in {"system", "user"}

\* What the caller sees of a write through the local request: a write to a key
\* of the request (depth "key") when the local is the caller's object, a write
\* inside message 0 (depth "message") also when the message dicts are shared.
Written(k, depth) ==
    IF k.shares = "object" THEN [k EXCEPT !.given = k.request]
    ELSE IF k.shares = "messages" /\ depth = "message"
    THEN [k EXCEPT !.given.messages[1] = k.request.messages[1]]
    ELSE k

\* The same with copy.copy for copy.deepcopy.
EnterShallowCopy(k, cf) ==
    LET got == get_config(cf)
    IN  [call |-> [k EXCEPT !.pc = "entered", !.request = k.given,
                            !.shares = "messages", !.cfg = got.ref],
         config |-> got.config]

\* app.py:89-90: the deep copy of the request and the configuration of the call.
Enter(k, cf) ==
    LET got == get_config(cf)
    IN  [call |-> [k EXCEPT !.pc = "entered", !.request = k.given,
                            !.shares = "none", !.cfg = got.ref],
         config |-> got.config]

\* app.py:91-105: the schemas of the prompt in message 0, which becomes the
\* system message with the rewritten prompt.
Synthesize(k, cf) ==
    IF ~HasPrompt(k.request)
    THEN [k EXCEPT !.pc = "tools"]
    ELSE LET built == build_tool_parser(system_prompt(k.request.messages[1].content),
                                        ~cf.objects[k.cfg].disable_strict_schemas)
         IN  Written([k EXCEPT !.pc = "synthesized",
                               !.parser = built.parser,
                               !.request.messages[1].role = "system",
                               !.request.messages[1].content =
                                   Str(built.processed_system_prompt)],
                     "message")

\* The same with the schemas put before the tools of the client.
AddSchemasFirst(request, schemas) ==
    IF schemas # <<>>
    THEN [request EXCEPT !.tools = Tools(schemas \o ToolsOrEmpty(request))]
    ELSE request

\* app.py:106-107
AddSchemas(request, schemas) ==
    IF schemas # <<>>
    THEN [request EXCEPT !.tools = Tools(ToolsOrEmpty(request) \o schemas)]
    ELSE request

\* app.py:108-109
ForceToolChoice(request, force_tool_calling) ==
    IF force_tool_calling /\ ToolsOrEmpty(request) # <<>>
    THEN [request EXCEPT !.tool_choice = "required"]
    ELSE request

AddTools(k, cf) ==
    Written([k EXCEPT !.pc = "tools",
                      !.request = ForceToolChoice(AddSchemas(k.request, k.parser.schemas),
                                                  cf.objects[k.cfg].force_tool_calling)],
            "key")

\* app.py:111-123: the messages through the rewriter of the parser and the
\* replacement pipeline, the dumps, the return.  The name parser is unbound
\* when the branch of line 91 was not taken.
Rewrite(k, cf) ==
    IF ~k.parser.bound
    THEN [k EXCEPT !.pc = "raised"]
    ELSE LET messages == modify_xml_messages_to_tool_calls(k.parser, k.request.messages)
             replaced == apply_replacement_to_messages(messages)
             request == [k.request EXCEPT !.messages = replaced.messages]
         IN  Written([k EXCEPT !.pc = "returned",
                               !.request = request,
                               !.apply_replacement_to_completion =
                                   replaced.apply_replacement_to_completion,
                               !.message_dump =
                                   IF cf.objects[k.cfg].message_dump_path # None
                                   THEN Dump(request.messages) ELSE NoDump,
                               !.tool_dump =
                                   IF cf.objects[k.cfg].tool_dump_path # None
                                   THEN Dump(IF ToolsOrEmpty(request) # <<>>
                                             THEN ToolsOrEmpty(request) ELSE <<"[]">>)
                                   ELSE NoDump],
                     "key")

(***************************************************************************)
(* Actions: one step of the handler of request i.                          *)
(***************************************************************************)
ErrorStatus(i) ==
    /\ Locals(i).pc = "start" /\ Locals(i).is_error
    /\ req' = [req EXCEPT ![i] = OnErrorStatus(Locals(i))]
    /\ UNCHANGED <<call, config>>

Begin(i) ==
    /\ Locals(i).pc = "start" /\ ~Locals(i).is_error
    /\ req' = [req EXCEPT ![i] = [Locals(i) EXCEPT !.pc = "loop"]]
    /\ UNCHANGED <<call, config>>

Disconnected(i) ==
    /\ Reading(Locals(i))
    /\ req' = [req EXCEPT ![i] = OnDisconnected(Locals(i))]
    /\ UNCHANGED <<call, config>>

OtherLine(i) ==
    /\ Reading(Locals(i))
    /\ req' = [req EXCEPT ![i] = OnOtherLine(Locals(i), Line("other", NextPos(Locals(i))))]
    /\ UNCHANGED <<call, config>>

Sentinel(i) ==
    /\ Reading(Locals(i))
    /\ req' = [req EXCEPT ![i] = OnSentinel(Locals(i), Line("done", NextPos(Locals(i))))]
    /\ UNCHANGED <<call, config>>

BadJson(i) ==
    /\ Reading(Locals(i))
    /\ req' = [req EXCEPT ![i] = OnBadJson(Locals(i), Line("bad", NextPos(Locals(i))))]
    /\ UNCHANGED <<call, config>>

Event(i) ==
    /\ Reading(Locals(i))
    /\ \E e \in Events(Locals(i)) :
          req' = [req EXCEPT ![i] = IF Locals(i).handler = "chat"
                                    THEN ChatEvent(Locals(i), e)
                                    ELSE LegacyEvent(Locals(i), e)]
    /\ UNCHANGED <<call, config>>

\* The backend closes the response: the loop ends.
EndOfStream(i) ==
    /\ Locals(i).pc = "loop"
    /\ req' = [req EXCEPT ![i] = [Locals(i) EXCEPT !.pc = "done"]]
    /\ UNCHANGED <<call, config>>

\* The requests the server may be handling.
Requests == {1, 2}

Active(i) == i \in DOMAIN req

Next ==
    \/ \E i \in Requests : Active(i) /\ ErrorStatus(i)
    \/ \E i \in Requests : Active(i) /\ Begin(i)
    \/ \E i \in Requests : Active(i) /\ Disconnected(i)
    \/ \E i \in Requests : Active(i) /\ OtherLine(i)
    \/ \E i \in Requests : Active(i) /\ Sentinel(i)
    \/ \E i \in Requests : Active(i) /\ BadJson(i)
    \/ \E i \in Requests : Active(i) /\ Event(i)
    \/ \E i \in Requests : Active(i) /\ EndOfStream(i)

\* One request, of either endpoint, with or without an error status.
Init ==
    \E handler \in {"chat", "legacy"}, is_error \in BOOLEAN :
        /\ req = [i \in {1} |-> Request(handler, is_error, "any", MaxLines, 0)]
        /\ call = <<>>
        /\ config = FreshConfig(RuntimeConfig(None, None, FALSE, FALSE))

Spec == Init /\ [][Next]_vars

\* Two chat requests handled at once, each with its own backend response.
InitPair ==
    \E e1 \in BOOLEAN, e2 \in BOOLEAN :
        /\ req = [i \in {1, 2} |->
                     Request("chat", IF i = 1 THEN e1 ELSE e2, "calls", MaxPairLines,
                             (i - 1) * MaxPairLines)]
        /\ call = <<>>
        /\ config = FreshConfig(RuntimeConfig(None, None, FALSE, FALSE))

SpecPair == InitPair /\ [][Next]_vars


(***************************************************************************)
(* Actions of process_request for invocation c, and of /api/config.        *)
(***************************************************************************)
Entry(c) ==
    /\ call[c].pc = "called"
    /\ call' = [call EXCEPT ![c] = Enter(call[c], config).call]
    /\ config' = Enter(call[c], config).config
    /\ UNCHANGED req

Synthesis(c) ==
    /\ call[c].pc = "entered"
    /\ call' = [call EXCEPT ![c] = Synthesize(call[c], config)]
    /\ UNCHANGED <<req, config>>

ToolList(c) ==
    /\ call[c].pc = "synthesized"
    /\ call' = [call EXCEPT ![c] = AddTools(call[c], config)]
    /\ UNCHANGED <<req, config>>

Rewriting(c) ==
    /\ call[c].pc = "tools"
    /\ call' = [call EXCEPT ![c] = Rewrite(call[c], config)]
    /\ UNCHANGED <<req, config>>

\* The most payloads posted to /api/config.
MaxUpdates == 2

\* app.py:37-40: POST /api/config
ApiUpdateConfig ==
    /\ Len(config.payloads) < MaxUpdates
    /\ \E data \in Payloads : config' = update_config(config, data)
    /\ UNCHANGED <<req, call>>

\* app.py:32-34: GET /api/config
ApiGetConfig ==
    /\ config' = get_config(config).config
    /\ UNCHANGED <<req, call>>

\* The invocations of process_request.
Calls == {1}

Called(c) == c \in DOMAIN call

NextRequest ==
    \/ \E c \in Calls : Called(c) /\ Entry(c)
    \/ \E c \in Calls : Called(c) /\ Synthesis(c)
    \/ \E c \in Calls : Called(c) /\ ToolList(c)
    \/ \E c \in Calls : Called(c) /\ Rewriting(c)

NextConfig ==
    \/ \E c \in Calls : Called(c) /\ Entry(c)
    \/ \E c \in Calls : Called(c) /\ Synthesis(c)
    \/ \E c \in Calls : Called(c) /\ ToolList(c)
    \/ \E c \in Calls : Called(c) /\ Rewriting(c)
    \/ ApiUpdateConfig
    \/ ApiGetConfig

\* The longest message list of a request.
MaxMessages == 2

\* The environments the process may be started in.
Environments ==
    { RuntimeConfig(dump, dump, disable_strict_schemas, force_tool_calling) :
        dump \in {None, "dump.json"},
        disable_strict_schemas \in BOOLEAN, force_tool_calling \in BOOLEAN }

\* The chat-completion requests of the model.
ClientRequests ==
    { [messages |-> messages, tools |-> tools, tool_choice |-> tool_choice] :
        messages \in MessageLists(MaxMessages),
        tools \in { NoTools, Tools(<<>>), Tools(<<ClientTool("t1")>>),
                    Tools(<<ClientTool("t1"), ClientTool("t2")>>) },
        tool_choice \in {Absent, "auto", "required"} }

\* One invocation of process_request on any request, in any environment.
InitRequest ==
    \E given \in ClientRequests, env \in Environments :
        /\ req = <<>>
        /\ call = [c \in {1} |-> Invocation(given)]
        /\ config = FreshConfig(env)

SpecRequest == InitRequest /\ [][NextRequest]_vars

\* One invocation of process_request on a request with a prompt that declares
\* tools, while the configuration is read and updated through /api/config.
InitConfig ==
    \E first \in { Message("system", Str(<<Word("old"), ToolBlock("a")>>)),
                   Message("user", Str(<<ToolBlock("b"), Word("w"), ToolBlock("a")>>)) },
       tools \in { NoTools, Tools(<<ClientTool("t1")>>) },
       disable_strict_schemas \in BOOLEAN, force_tool_calling \in BOOLEAN :
        /\ req = <<>>
        /\ call = [c \in {1} |->
                      Invocation([messages |-> <<first>>, tools |-> tools,
                                  tool_choice |-> Absent])]
        /\ config = FreshConfig(RuntimeConfig(None, None, disable_strict_schemas,
                                              force_tool_calling))

SpecConfig == InitConfig /\ [][NextConfig]_vars


(***************************************************************************)
(* Vocabulary of the properties.                                           *)
(***************************************************************************)
RECURSIVE Concat(_)
Concat(texts) == IF texts = <<>> THEN NoText ELSE Head(texts) \o Concat(Tail(texts))

IsFlush(o) == o.what = "flush"
IsForward(o) == o.what = "forward"

Flushes(r) == SelectSeq(r.out, IsFlush)

Chat(i) == req[i].handler = "chat"
Legacy(i) == req[i].handler = "legacy"

\* The handler of request i has read some line and the last one is the sentinel.
SentinelLast(i) ==
    /\ req[i].inp # <<>>
    /\ req[i].inp[Len(req[i].inp)].kind = "done"

\* An event with exactly one tool-call fragment, of call index c on choice ch.
FragmentOf(e, ch, c) ==
    /\ e.kind = "event" /\ e.choices /\ e.index = ch
    /\ Len(e.tool_calls) = 1 /\ e.tool_calls[1].index = c

\* An event without a tool call that carries a finish reason, at either place.
FinishEvent(e) ==
    /\ e.kind = "event" /\ e.choices /\ e.tool_calls = <<>>
    /\ (e.finish_reason # None \/ e.choice_finish_reason # None)

\* The fragments of the first n events of inp, field by field, concatenated.
NamesOf(inp, n) == Concat([k \in 1..n |-> inp[k].tool_calls[1].name])
ArgumentsOf(inp, n) == Concat([k \in 1..n |-> inp[k].tool_calls[1].arguments])
IdsOf(inp, n) == Concat([k \in 1..n |-> inp[k].tool_calls[1].id])

\* inp is N >= 1 fragments of call c on choice ch, the first of them announcing
\* the assistant, then a finish event, then the sentinel.
OneCallStream(inp, ch, c) ==
    /\ Len(inp) >= 3
    /\ inp[1].kind = "event" /\ inp[1].role = "assistant"
    /\ inp[Len(inp)].kind = "done"
    /\ FinishEvent(inp[Len(inp) - 1])
    /\ \A k \in 1..(Len(inp) - 2) : FragmentOf(inp[k], ch, c)

(***************************************************************************)
(* C1: N >= 1 events that each carry a fragment of the same call index on  *)
(* the same choice, then an event with a finish reason, then the sentinel, *)
(* yield exactly one flush, whose name, arguments and id are the in-order  *)
(* concatenations of the fragments' fields.  (Stated for streams whose     *)
(* first delta announces the assistant role, as a backend's first delta    *)
(* does.)                                                                  *)
(***************************************************************************)
C1_OneCallOneFlush ==
    \A i \in DOMAIN req : \A ch \in {0, 1}, c \in {0, 1} :
        (Chat(i) /\ OneCallStream(req[i].inp, ch, c)) =>
            LET n == Len(req[i].inp) - 2
                f == Flushes(req[i])
            IN  /\ Len(f) = 1
                /\ f[1].line.content.tool_name = NamesOf(req[i].inp, n)
                /\ f[1].line.content.buffer = ArgumentsOf(req[i].inp, n)
                /\ f[1].line.content.tool_call_id = IdsOf(req[i].inp, n)

\* inp is: the assistant's first fragment of call 0 (with arguments), then
\* fragments with arguments whose call index alternates 1, 0, 1, ..., then the
\* sentinel.
AlternatingStream(inp) ==
    /\ Len(inp) >= 3
    /\ inp[Len(inp)].kind = "done"
    /\ inp[1].kind = "event" /\ inp[1].role = "assistant"
    /\ \A k \in 1..(Len(inp) - 1) :
          /\ FragmentOf(inp[k], 0, (k - 1) % 2)
          /\ inp[k].tool_calls[1].arguments # NoText
          /\ inp[k].finish_reason = None

(***************************************************************************)
(* C2: when the fragments of calls 0 and 1 alternate on one choice, two    *)
(* flushes are emitted, each built from the fragments of its own call      *)
(* index only, in the order in which the indices first diverged.  (Stated  *)
(* for streams whose first delta announces the assistant and whose         *)
(* fragments all carry arguments text, where the other flush conditions    *)
(* play no part.)                                                          *)
(***************************************************************************)
C2_TwoCallsTwoFlushes ==
    \A i \in DOMAIN req :
        (Chat(i) /\ AlternatingStream(req[i].inp)) =>
            LET inp == req[i].inp
                f == Flushes(req[i])
                own(c) == SelectSeq([k \in 1..(Len(inp) - 1) |-> inp[k]],
                                    LAMBDA e : e.tool_calls[1].index = c)
                args(c) == Concat([k \in 1..Len(own(c)) |-> own(c)[k].tool_calls[1].arguments])
            IN  /\ Len(f) = 2
                /\ f[1].line.content.buffer = args(0)
                /\ f[2].line.content.buffer = args(1)

(***************************************************************************)
(* C3: no emitted line carries the finish reason "tool_calls", at the top  *)
(* level of the payload or inside the choice.                              *)
(***************************************************************************)
C3_NoToolCallsFinishReason ==
    \A i \in DOMAIN req : \A k \in 1..Len(req[i].out) :
        Chat(i) =>
            /\ req[i].out[k].line.finish_reason # "tool_calls"
            /\ req[i].out[k].line.choice_finish_reason # "tool_calls"

(***************************************************************************)
(* C4: every emitted event, forwarded or flushed, has the tool_calls and   *)
(* reasoning_content of its delta cleared.                                 *)
(***************************************************************************)
C4_ToolFieldsCleared ==
    \A i \in DOMAIN req : \A k \in 1..Len(req[i].out) :
        Chat(i) =>
            /\ req[i].out[k].line.tool_calls = <<>>
            /\ req[i].out[k].line.reasoning_content = NoText

(***************************************************************************)
(* C5: a poll of is_disconnected that returns true ends the handler (chat  *)
(* or legacy) before the line is processed: the step yields nothing,       *)
(* consumes nothing, and nothing is yielded ever after.                    *)
(***************************************************************************)
C5_NoOutputOnceDisconnected ==
    [][\A i \in DOMAIN req :
          /\ req[i].pc = "disconnected" => req'[i] = req[i]
          /\ req'[i].pc = "disconnected" =>
                /\ req'[i].out = req[i].out
                /\ req'[i].inp = req[i].inp]_vars

\* A client left while a fragment was open and lines had been yielded.
C5_Witness ==
    \E i \in DOMAIN req :
        /\ Chat(i)
        /\ req[i].pc = "disconnected"
        /\ req[i].buffer # NoText
        /\ req[i].out # <<>>

(***************************************************************************)
(* C6: on an error status the handler yields exactly the error payload and *)
(* the sentinel, and ends: it parses no upstream line and flushes nothing. *)
(***************************************************************************)
C6_ErrorStatusTwoLines ==
    \A i \in DOMAIN req :
        req[i].is_error =>
            \/ req[i].pc = "start" /\ req[i].out = <<>>
            \/ /\ req[i].pc = "done"
               /\ Len(req[i].out) = 2
               /\ req[i].out[1].what = "error"
               /\ req[i].out[2].what = "sentinel"
               /\ req[i].inp = <<>>

C6_Witness ==
    \E i \in DOMAIN req : req[i].is_error /\ req[i].pc = "done" /\ Len(req[i].out) = 2

(***************************************************************************)
(* C7: a sentinel that arrives while the accumulator holds tool-call data  *)
(* (name, arguments or id) is preceded by exactly one flush, and leaves    *)
(* name, arguments, id and reasoning empty.                                *)
(***************************************************************************)
C7_SentinelFlushesAccumulator ==
    [][\A i \in DOMAIN req :
          ( /\ Chat(i)
            /\ Len(req'[i].inp) = Len(req[i].inp) + 1
            /\ req'[i].inp[Len(req'[i].inp)].kind = "done"
            /\ \/ req[i].tool_name # NoText
               \/ req[i].buffer # NoText
               \/ req[i].tool_call_id # NoText )
          => /\ Len(req'[i].out) = Len(req[i].out) + 2
             /\ req'[i].out[Len(req[i].out) + 1].what = "flush"
             /\ req'[i].out[Len(req[i].out) + 2].what = "sentinel"
             /\ req'[i].tool_name = NoText
             /\ req'[i].buffer = NoText
             /\ req'[i].tool_call_id = NoText
             /\ req'[i].reasoning_content_buffer = NoText]_vars

(***************************************************************************)
(* C8: a data line that is not JSON ends the handler with an error: it is  *)
(* the last line the handler reads, and nothing of it or after it is       *)
(* yielded.                                                                *)
(***************************************************************************)
C8_BadJsonIsFatal ==
    \A i \in DOMAIN req : \A k \in 1..Len(req[i].inp) :
        req[i].inp[k].kind = "bad" =>
            /\ req[i].pc = "raised"
            /\ k = Len(req[i].inp)
            /\ \A n \in 1..Len(req[i].out) : req[i].out[n].line.pos < req[i].base + k

\* The stream broke while a tool call was being accumulated.
C8_Witness ==
    \E i \in DOMAIN req :
        /\ Chat(i)
        /\ req[i].pc = "raised"
        /\ req[i].inp[Len(req[i].inp)].kind = "bad"
        /\ req[i].buffer # NoText
        /\ req[i].out # <<>>

\* inp is data events (and lines that are skipped), then the sentinel.
EventsThenSentinel(inp) ==
    /\ inp # <<>>
    /\ inp[Len(inp)].kind = "done"
    /\ \A k \in 1..(Len(inp) - 1) : inp[k].kind \in {"event", "other"}

\* choices[0].text of an upstream line ("" when there is none).
TextOf(l) == IF l.kind = "event" /\ l.choices THEN l.text.buffer ELSE NoText

(***************************************************************************)
(* C10: in the legacy handler every forwarded event has the text of its    *)
(* first choice emptied, and once the sentinel has been read the buffered  *)
(* texts handed to the completion transform, concatenated in flush order,  *)
(* are the texts of the input events concatenated in input order.          *)
(***************************************************************************)
C10_LegacyTextOnce ==
    \A i \in DOMAIN req :
        Legacy(i) =>
            /\ \A k \in 1..Len(req[i].out) :
                  IsForward(req[i].out[k]) =>
                      req[i].out[k].line.text = BackendText(NoText)
            /\ EventsThenSentinel(req[i].inp) =>
                  LET f == Flushes(req[i])
                  IN  /\ \A k \in 1..Len(f) : f[k].line.text.by = "flush"
                      /\ Concat([k \in 1..Len(f) |-> f[k].line.text.buffer])
                         = Concat([k \in 1..Len(req[i].inp) |-> TextOf(req[i].inp[k])])

\* Three text events, flushed in two pieces, then the sentinel.
C10_Witness ==
    \E i \in DOMAIN req :
        /\ Legacy(i)
        /\ EventsThenSentinel(req[i].inp)
        /\ Len(Flushes(req[i])) = 2
        /\ Len(Concat([k \in 1..Len(req[i].inp) |-> TextOf(req[i].inp[k])])) = 3


(***************************************************************************)
(* One handler run alone on the lines a request has read: the loop body    *)
(* applied to each line in turn, from the initial locals.                  *)
(***************************************************************************)
OnLine(r, l) ==
    CASE l.kind = "other" -> OnOtherLine(r, l)
      [] l.kind = "done" -> OnSentinel(r, l)
      [] l.kind = "bad" -> OnBadJson(r, l)
      [] OTHER -> IF r.handler = "chat" THEN ChatEvent(r, l) ELSE LegacyEvent(r, l)

RECURSIVE Replay(_, _)
Replay(r, lines) ==
    IF lines = <<>> THEN r ELSE Replay(OnLine(r, Head(lines)), Tail(lines))

Alone(r) ==
    LET fresh == Request(r.handler, r.is_error, r.upstream, r.limit, r.base)
    IN  IF r.pc = "start" THEN fresh
        ELSE IF r.is_error THEN OnErrorStatus(fresh)
        ELSE Replay(fresh, r.inp)

(***************************************************************************)
(* C9: with the lines of two requests interleaved in any order, each       *)
(* handler has yielded what it yields alone on its own lines, and holds    *)
(* the accumulator, carrier and indices it holds alone.                    *)
(***************************************************************************)
C9_RequestsIsolated ==
    \A i \in DOMAIN req :
        LET a == Alone(req[i])
        IN  /\ req[i].out = a.out
            /\ req[i].buffer = a.buffer
            /\ req[i].tool_name = a.tool_name
            /\ req[i].tool_call_id = a.tool_call_id
            /\ req[i].reasoning_content_buffer = a.reasoning_content_buffer
            /\ req[i].last_chunk = a.last_chunk
            /\ req[i].role = a.role
            /\ req[i].choice_index = a.choice_index
            /\ req[i].tool_call_index = a.tool_call_index

\* Request 1 is accumulating its first call while request 2 has flushed one call
\* and is accumulating the next.
C9_Witness ==
    /\ DOMAIN req = {1, 2}
    /\ req[1].pc = "loop" /\ req[2].pc = "loop"
    /\ req[1].buffer # NoText /\ Flushes(req[1]) = <<>>
    /\ req[2].buffer # NoText /\ Len(Flushes(req[2])) = 1
    /\ req[1].buffer # req[2].buffer

(***************************************************************************)
(* Where a text came from: the upstream event a token was sent in, and the *)
(* (choice index, call index) pair of the fragment that event carried.     *)
(***************************************************************************)
Tokens(text) == { text[n] : n \in 1..Len(text) }

EventOf(r, tok) == r.inp[(tok \div 10) - r.base]

PairOf(r, tok) == <<EventOf(r, tok).index, EventOf(r, tok).tool_calls[1].index>>

\* The name, arguments and id text a flush line was built from.
CallTokens(content) ==
    Tokens(content.tool_name) \cup Tokens(content.buffer) \cup Tokens(content.tool_call_id)

(***************************************************************************)
(* C12: every flush of handle_stream_response is built from the fragments  *)
(* of one (choice index, call index) pair: the name, arguments and id text *)
(* of two different calls are never concatenated into one flush.           *)
(***************************************************************************)
C12_FlushOfOneCall ==
    \A i \in DOMAIN req :
        Chat(i) =>
            \A n \in 1..Len(Flushes(req[i])) :
                \A t1, t2 \in CallTokens(Flushes(req[i])[n].line.content) :
                    PairOf(req[i], t1) = PairOf(req[i], t2)

\* The name (arguments, id) text request r holds in its accumulator or has
\* handed to the encoder in a flush.
NameTokens(r) ==
    Tokens(r.tool_name)
    \cup UNION { Tokens(Flushes(r)[n].line.content.tool_name) : n \in 1..Len(Flushes(r)) }

ArgumentsTokens(r) ==
    Tokens(r.buffer)
    \cup UNION { Tokens(Flushes(r)[n].line.content.buffer) : n \in 1..Len(Flushes(r)) }

IdTokens(r) ==
    Tokens(r.tool_call_id)
    \cup UNION { Tokens(Flushes(r)[n].line.content.tool_call_id) : n \in 1..Len(Flushes(r)) }

(***************************************************************************)
(* C13: every tool-call fragment of every data event handle_stream_        *)
(* response has processed is appended to the accumulator: its name,        *)
(* arguments and id text is in the accumulator or in a flush, whatever     *)
(* role has been announced and however many fragments the delta holds.     *)
(***************************************************************************)
C13_EveryFragmentAppended ==
    \A i \in DOMAIN req :
        Chat(i) =>
            \A k \in 1..Len(req[i].inp) :
                LET e == req[i].inp[k]
                IN  e.kind = "event" =>
                        \A n \in 1..Len(e.tool_calls) :
                            /\ Tokens(e.tool_calls[n].name) \subseteq NameTokens(req[i])
                            /\ Tokens(e.tool_calls[n].arguments) \subseteq ArgumentsTokens(req[i])
                            /\ Tokens(e.tool_calls[n].id) \subseteq IdTokens(req[i])

(***************************************************************************)
(* C14: the synthetic text of a flushed tool call is delivered in exactly  *)
(* one outgoing line of handle_stream_response: no other emitted line, the *)
(* forwarded copy of the event that triggered the flush included, carries  *)
(* that text in its content field.                                         *)
(***************************************************************************)
C14_SyntheticTextOnce ==
    \A i \in DOMAIN req :
        Chat(i) =>
            \A n, m \in 1..Len(req[i].out) :
                ( /\ n # m
                  /\ IsFlush(req[i].out[n])
                  /\ req[i].out[n].line.content.by = "flush" )
                => req[i].out[m].line.content # req[i].out[n].line.content

\* The upstream positions of the parsed events of inp, and of the forwarded
\* lines of out, in order.
EventPositions(inp) ==
    LET events == SelectSeq(inp, LAMBDA l : l.kind = "event")
    IN  [k \in 1..Len(events) |-> events[k].pos]

ForwardPositions(out) ==
    LET forwards == SelectSeq(out, IsForward)
    IN  [k \in 1..Len(forwards) |-> forwards[k].line.pos]

(***************************************************************************)
(* C18: handle_stream_response keeps event boundaries and order.  A step   *)
(* that parses a data event appends to the output at most two flush lines  *)
(* and then exactly one forwarded line, that of the event; the forwarded   *)
(* lines are those of the events read, in upstream order; a line that does *)
(* not start with "data: " yields nothing and changes nothing of the       *)
(* accumulator state.                                                      *)
(***************************************************************************)
C18_EventBoundaries ==
    [][\A i \in DOMAIN req :
          Chat(i) =>
              /\ ForwardPositions(req'[i].out) = EventPositions(req'[i].inp)
              /\ Len(req'[i].inp) = Len(req[i].inp) + 1 =>
                    LET l == req'[i].inp[Len(req'[i].inp)]
                        old == Len(req[i].out)
                        new == Len(req'[i].out) - old
                    IN  /\ l.kind = "event" =>
                              /\ new \in 1..3
                              /\ SubSeq(req'[i].out, 1, old) = req[i].out
                              /\ \A n \in 1..(new - 1) : IsFlush(req'[i].out[old + n])
                              /\ IsForward(req'[i].out[old + new])
                              /\ req'[i].out[old + new].line.pos = l.pos
                        /\ l.kind = "other" =>
                              req'[i] = [req[i] EXCEPT !.inp = req'[i].inp]]_vars

\* An event was forwarded after the two flushes it triggered, and a line that
\* is not data was skipped while a call was open.
C18_Witness ==
    \E i \in DOMAIN req :
        /\ Chat(i)
        /\ \E k \in 2..Len(req[i].inp) :
              /\ req[i].inp[k].kind = "other"
              /\ req[i].inp[k - 1].kind = "event"
              /\ req[i].inp[k - 1].tool_calls # <<>>
        /\ \E n \in 1..(Len(req[i].out) - 2) :
              /\ IsFlush(req[i].out[n])
              /\ IsFlush(req[i].out[n + 1])
              /\ IsForward(req[i].out[n + 2])
              /\ req[i].out[n + 1].line.pos = req[i].out[n + 2].line.pos
              /\ req[i].out[n].line.pos < req[i].out[n + 1].line.pos

(***************************************************************************)
(* C19: when handle_stream_response has terminated, on an upstream without *)
(* disconnect, error status or unparseable payload, every name, arguments  *)
(* and id text that was appended to the accumulator has been emitted in a  *)
(* flush: the accumulator is empty, also when the upstream ended without a *)
(* sentinel line.                                                          *)
(***************************************************************************)
C19_NothingLeftAtEnd ==
    \A i \in DOMAIN req :
        (Chat(i) /\ ~req[i].is_error /\ req[i].pc = "done") =>
            /\ req[i].tool_name = NoText
            /\ req[i].buffer = NoText
            /\ req[i].tool_call_id = NoText

\* What a flush line handed to the encoder (chat) or the transform (legacy).
Flushed(r, o) == IF r.handler = "chat" THEN o.line.content ELSE o.line.text

(***************************************************************************)
(* C20: in both streaming handlers a non-empty buffer implies a recorded   *)
(* carrier (last_chunk), so create_tool_call never runs without one (no    *)
(* handler ends in an error other than on a payload that is not JSON);     *)
(* create_tool_call only runs on a non-empty buffer (every flush line      *)
(* carries arguments text), and it leaves buffer, tool name, call id and   *)
(* reasoning buffer empty (no text of a flush line is still in the         *)
(* accumulator).                                                           *)
(***************************************************************************)
C20_FlushHasCarrierAndResets ==
    \A i \in DOMAIN req :
        /\ req[i].buffer # NoText => req[i].last_chunk.kind = "event"
        /\ req[i].pc = "raised" => req[i].inp[Len(req[i].inp)].kind = "bad"
        /\ \A n \in 1..Len(Flushes(req[i])) :
              LET f == Flushed(req[i], Flushes(req[i])[n])
              IN  /\ f.by = "flush"
                  /\ f.buffer # NoText
                  /\ Tokens(f.buffer) \cap Tokens(req[i].buffer) = {}
                  /\ Tokens(f.tool_name) \cap Tokens(req[i].tool_name) = {}
                  /\ Tokens(f.tool_call_id) \cap Tokens(req[i].tool_call_id) = {}
                  /\ Tokens(f.reasoning) \cap Tokens(req[i].reasoning_content_buffer) = {}

\* A call with name, id and reasoning was flushed and the next one is open.
C20_Witness ==
    \E i \in DOMAIN req :
        /\ Chat(i)
        /\ req[i].buffer # NoText
        /\ \E n \in 1..Len(Flushes(req[i])) :
              /\ Flushes(req[i])[n].line.content.tool_name # NoText
              /\ Flushes(req[i])[n].line.content.reasoning # NoText

(***************************************************************************)
(* Vocabulary of the properties of process_request.                        *)
(***************************************************************************)
Returned(c) == call[c].pc = "returned"

\* The configuration object invocation c read at entry, as it is now.
Snapshot(c) == config.objects[call[c].cfg]

\* No message embeds a tool call or a tool result.
NoTags(messages) ==
    \A k \in 1..Len(messages) :
        \A n \in 1..Len(system_prompt(messages[k].content)) :
            ~IsTag(system_prompt(messages[k].content)[n])

(***************************************************************************)
(* C11: in the request process_request returns, the tools the client sent  *)
(* come first, in order, and the synthesized schemas follow in synthesis   *)
(* order; without a synthesized schema the tools field is as it was; and   *)
(* tool_choice is "required" when the force-tool flag is on and the        *)
(* resulting tool list is non-empty, and as the client sent it otherwise.  *)
(***************************************************************************)
C11_ToolsPopulated ==
    \A c \in DOMAIN call :
        Returned(c) =>
            LET given == call[c].given
                request == call[c].request
                schemas == call[c].parser.schemas
            IN  /\ schemas # <<>> =>
                      /\ request.tools.present
                      /\ request.tools.list = ToolsOrEmpty(given) \o schemas
                /\ schemas = <<>> => request.tools = given.tools
                /\ request.tool_choice =
                      IF Snapshot(c).force_tool_calling /\ ToolsOrEmpty(request) # <<>>
                      THEN "required"
                      ELSE given.tool_choice

\* Two tools of the client and two synthesized schemas, with the force-tool
\* flag on and another tool_choice asked for.
C11_Witness ==
    \E c \in DOMAIN call :
        /\ Returned(c)
        /\ Len(call[c].given.tools.list) = 2
        /\ Len(call[c].parser.schemas) = 2
        /\ Len(call[c].request.tools.list) = 4
        /\ Snapshot(c).force_tool_calling
        /\ call[c].given.tool_choice = "auto"
        /\ call[c].request.tool_choice = "required"

(***************************************************************************)
(* C15: process_request returns a rewritten request also for an empty      *)
(* message list and for a message 0 whose role is not system or user: it   *)
(* does not fail, and the request it returns has no schema synthesized, no *)
(* tool added, and the messages of the client passed through the message   *)
(* rewriter and the replacement pipeline.                                  *)
(***************************************************************************)
C15_ReturnsWithoutPrompt ==
    \A c \in DOMAIN call :
        ~HasPrompt(call[c].given) =>
            /\ call[c].pc # "raised"
            /\ Returned(c) =>
                  /\ call[c].parser.schemas = <<>>
                  /\ call[c].request.tools = call[c].given.tools
                  /\ call[c].request.messages =
                        apply_replacement_to_messages(
                            modify_xml_messages_to_tool_calls(call[c].parser,
                                                              call[c].given.messages)).messages

(***************************************************************************)
(* C16: when the messages embed no tool tags, process_request returns as   *)
(* many messages as it was given, each with the role of the message given  *)
(* at its position, also when message 0 has role user.                     *)
(***************************************************************************)
C16_RolesPreserved ==
    \A c \in DOMAIN call :
        (Returned(c) /\ NoTags(call[c].given.messages)) =>
            /\ Len(call[c].request.messages) = Len(call[c].given.messages)
            /\ \A k \in 1..Len(call[c].given.messages) :
                  call[c].request.messages[k].role = call[c].given.messages[k].role

\* The object _global_config names (the environment's, before the first use).
Current(cf) == IF cf.global_config = 0 THEN cf.env ELSE cf.objects[cf.global_config]

(***************************************************************************)
(* C17: the configuration is read-only for the duration of a request.  In  *)
(* every step, whatever the interleaving of /api/config with an            *)
(* invocation of process_request: no RuntimeConfig object that exists is   *)
(* changed; an update installs a new object as the current one, with the   *)
(* values of the fields its payload names and the previous values of the   *)
(* others; an invocation keeps the object it read at entry, and the        *)
(* strictness of its schemas and its tool_choice are those of the flags of *)
(* that object.                                                            *)
(***************************************************************************)
C17_ConfigSnapshot ==
    [][/\ \A k \in 1..Len(config.objects) : config'.objects[k] = config.objects[k]
       /\ Len(config'.payloads) > Len(config.payloads) =>
             LET data == config'.payloads[Len(config'.payloads)]
             IN  /\ config'.global_config = Len(config'.objects)
                 /\ config'.global_config > Len(config.objects)
                 /\ \A f \in Fields :
                       Current(config')[f] =
                           IF f \in data.named THEN data.value[f] ELSE Current(config)[f]
       /\ \A c \in DOMAIN call :
             LET k == call'[c]
                 snapshot == config'.objects[k.cfg]
             IN  /\ call[c].cfg # 0 => k.cfg = call[c].cfg
                 /\ \A n \in 1..Len(k.parser.schemas) :
                       k.parser.schemas[n].strict = ~snapshot.disable_strict_schemas
                 /\ k.pc \in {"tools", "returned"} =>
                       k.request.tool_choice =
                           IF snapshot.force_tool_calling /\ ToolsOrEmpty(k.request) # <<>>
                           THEN "required"
                           ELSE k.given.tool_choice]_vars

\* Between the two reads of the flags by an invocation, updates have installed
\* a configuration with both flags the other way.
C17_Witness ==
    \E c \in DOMAIN call :
        /\ call[c].pc = "synthesized"
        /\ call[c].parser.schemas # <<>>
        /\ config.payloads # <<>>
        /\ call[c].cfg < config.global_config
        /\ Snapshot(c).force_tool_calling # Current(config).force_tool_calling
        /\ Snapshot(c).disable_strict_schemas # Current(config).disable_strict_schemas

(***************************************************************************)
(* C21: process_request never modifies the request object it is given: no  *)
(* step of an invocation changes the caller's request (its messages, the   *)
(* role and content of message 0, its tools, its tool_choice), so it is    *)
(* unchanged after the return or the failure.                              *)
(***************************************************************************)
C21_GivenRequestUntouched ==
    [][\A c \in DOMAIN call : call'[c].given = call[c].given]_vars

\* An invocation has returned a request whose message 0 (role and content),
\* tools and tool_choice all differ from those of the request it was given.
C21_Witness ==
    \E c \in DOMAIN call :
        /\ Returned(c)
        /\ call[c].request.messages[1].role # call[c].given.messages[1].role
        /\ call[c].request.messages[1].content # call[c].given.messages[1].content
        /\ call[c].request.tools # call[c].given.tools
        /\ call[c].request.tool_choice # call[c].given.tool_choice
        /\ Len(call[c].given.messages) = 2

====
